---- MODULE Spec2Model ----
(***************************************************************************)
(* A model of the consistent-hash ring of src/consistent_hash.go (the      *)
(* second, current definition of the package, lines 339-706).              *)
(*                                                                         *)
(* Strings are sequences of byte codes.  The hasher is an input of the     *)
(* ring (Config.HashFunc, SetHasher): the model draws it from a small      *)
(* family of table-driven hashers of the kind the repository's tests use.  *)
(***************************************************************************)
EXTENDS Integers, Sequences, FiniteSets, TLC

----------------------------------------------------------------------------
(* Bounds of the model. *)

\* Largest number of names in one Add or Remove call.
MaxBatch == 2
\* Largest n a GetN call carries.
MaxN == 2
\* The largest position: the model's ring has positions 0 .. MaxPosition
\* where the program's has 0 .. math.MaxUint32.
MaxPosition == 255

----------------------------------------------------------------------------
(* Program constants. *)

DefaultWeight == 1
\* The size of hashKey's stack buffer.
BufLen == 64

----------------------------------------------------------------------------
(* Strings: sequences of byte codes. *)

EmptyName == << >>
NodeA == <<65>>
NodeB == <<66>>
NodeC == <<67>>
Nodes == {NodeA, NodeB, NodeC}
\* The names a caller passes: node names and the empty string.
Names == Nodes \cup {EmptyName}

RECURSIVE Itoa(_)
\* strconv.Itoa for a non-negative integer.
Itoa(i) ==
    IF i < 10 THEN <<48 + i>> ELSE Itoa(i \div 10) \o <<48 + (i % 10)>>

formatKey(key, replicas) == key \o <<45>> \o Itoa(replicas)

\* The keys callers look up: "k0" .. "k5", and one key longer than the buffer.
ShortKey(i) == <<107>> \o Itoa(i)
LongKey == [i \in 1..(BufLen + 1) |-> IF i = 1 THEN 75 ELSE 120]
Keys == {ShortKey(i) : i \in 0..5} \cup {LongKey}

HasPrefix(s, prefix) ==
    /\ Len(prefix) <= Len(s)
    /\ \A i \in 1..Len(prefix) : s[i] = prefix[i]

\* var buf [64]byte; copy(buf[:], key): the key followed by zero bytes.
PadToBuf(key) == [i \in 1..BufLen |-> IF i <= Len(key) THEN key[i] ELSE 0]

----------------------------------------------------------------------------
(* Hashers.  The hasher is an input of the ring (Config.HashFunc,          *)
(* SetHasher).  The model draws it from table-driven hashers, as the       *)
(* TestHasher of the tests: a set of <<prefix, position>> entries; a key   *)
(* hashes to the position of the entry whose prefix it starts with, and    *)
(* to 0 when there is none.  No entry of a table is a prefix of another,   *)
(* so the iteration order of the table does not matter.                    *)

KeyEntries(ps) == {<<ShortKey(i), ps[i + 1]>> : i \in 0..5} \cup {<<LongKey, ps[7]>>}

\* Every virtual node on a position of its own.
SpreadTable ==
    {<<formatKey(NodeA, 0), 10>>, <<formatKey(NodeB, 0), 20>>,
     <<formatKey(NodeC, 0), 30>>, <<formatKey(NodeA, 1), 40>>,
     <<formatKey(NodeB, 1), 50>>, <<formatKey(NodeC, 1), 60>>}
    \cup KeyEntries(<<5, 10, 25, 45, 60, 70, 35>>)

\* Virtual nodes of different nodes, and of one node, share positions.
CollideTable ==
    {<<formatKey(NodeA, 0), 10>>, <<formatKey(NodeB, 0), 10>>,
     <<formatKey(NodeC, 0), 30>>, <<formatKey(NodeA, 1), 30>>,
     <<formatKey(NodeB, 1), 50>>, <<formatKey(NodeC, 1), 30>>}
    \cup KeyEntries(<<10, 5, 30, 20, 50, 40, 60>>)

Hashers == {"spread", "collide"}

hashValues(h) ==
    CASE h = "spread" -> SpreadTable
      [] h = "collide" -> CollideTable

\* TestHasher.Hash
Hash(h, key) ==
    LET hit == {e \in hashValues(h) : HasPrefix(key, e[1])}
    IN  IF hit = {} THEN 0 ELSE (CHOOSE e \in hit : TRUE)[2]

----------------------------------------------------------------------------
(* The ring: the fields of ConsistentHash.  c.config.Replicas is           *)
(* `replicas`, c.hash is `hash` (the name of a hasher of Hashers).  The    *)
(* capacity of the ring slice is not modelled: no operation reads it       *)
(* except to decide where the next backing array is allocated.             *)

VARIABLES
    replicas,   \* c.config.Replicas
    hash,       \* c.hash
    ring,       \* c.ring: a sequence of positions
    weights,    \* c.weights: node -> weight
    hashMap,    \* c.hashMap: position -> node
    members,    \* c.members: a set of nodes
    call,       \* the last public call made on the ring, and how it ended
    reconfigured, \* whether a setter has been called on the ring
    pc,         \* per thread: the place in the method it is running
    loc,        \* per thread: the arguments and locals of its call
    writer,     \* c.RWMutex: the thread holding the write lock, or "none"
    readers,    \* c.RWMutex: the threads holding the read lock
    committed,  \* the ring's content when the write lock was last released
    other       \* a second ring built by New, where a run has one

ringVars == <<replicas, hash, ring, weights, hashMap, members>>
threadVars == <<pc, loc, writer, readers, committed>>
vars == <<replicas, hash, ring, weights, hashMap, members, call, reconfigured,
          pc, loc, writer, readers, committed, other>>

\* The ring as one value: the receiver c of the methods.
Self ==
    [replicas |-> replicas, hash |-> hash, ring |-> ring,
     weights |-> weights, hashMap |-> hashMap, members |-> members]

EmptyMap == [x \in {} |-> 0]

\* delete(m, k)
MapDelete(m, k) == [x \in (DOMAIN m) \ {k} |-> m[x]]

\* m[k] = v
MapPut(m, k, v) == [x \in (DOMAIN m) \cup {k} |-> IF x = k THEN v ELSE m[x]]

\* c.hashMap[p]: the zero value "" for a missing key.
MapGet(m, p) == IF p \in DOMAIN m THEN m[p] ELSE EmptyName

\* New(config)
New(configReplicas, configHashFunc) ==
    [replicas |-> configReplicas, hash |-> configHashFunc, ring |-> << >>,
     weights |-> EmptyMap, hashMap |-> EmptyMap, members |-> {}]

\* SetVirtualReplicas that also drops the virtual nodes computed so far.
SetVirtualReplicasResetting(c, n) ==
    [c EXCEPT !.replicas = n, !.ring = << >>, !.hashMap = EmptyMap]

\* SetVirtualReplicas(replicas): c.config.Replicas = replicas
SetVirtualReplicas(c, n) == [c EXCEPT !.replicas = n]

hashKey(c, key) ==
    IF Len(key) <= BufLen THEN Hash(c.hash, PadToBuf(key)) ELSE Hash(c.hash, key)

RECURSIVE Insert(_, _)
Insert(sorted, x) ==
    IF sorted = << >> THEN <<x>>
    ELSE IF x < Head(sorted) THEN <<x>> \o sorted
    ELSE <<Head(sorted)>> \o Insert(Tail(sorted), x)

RECURSIVE SortAscending(_)
\* sort.Slice with less(i, j) = s[i] < s[j]: ascending, equal positions kept.
SortAscending(s) == IF s = << >> THEN << >> ELSE Insert(SortAscending(Tail(s)), Head(s))

\* sortRing with the sort left out.
sortRingSkipped(c) == c

sortRing(c) == [c EXCEPT !.ring = SortAscending(c.ring)]

RECURSIVE addVirtualNodes(_, _, _, _)
\* The loop of addNode: for i := i; i < n; i++ { append, record }.
addVirtualNodes(c, member, i, n) ==
    IF i >= n THEN c
    ELSE LET h == hashKey(c, formatKey(member, i))
         IN  addVirtualNodes(
                 [c EXCEPT !.ring = Append(c.ring, h),
                           !.hashMap = MapPut(c.hashMap, h, member)],
                 member, i + 1, n)

\* addNode without the test for a member that is already present.
addNodeUnchecked(c, member, weight) ==
    IF weight <= 0 THEN [c |-> c, err |-> "weight must be positive"]
    ELSE IF member = EmptyName
    THEN [c |-> c, err |-> "member already exists or empty"]
    ELSE LET reg == [c EXCEPT !.members = c.members \cup {member},
                             !.weights = MapPut(c.weights, member, weight)]
         IN  [c |-> sortRing(addVirtualNodes(reg, member, 0, c.replicas * weight)),
              err |-> "nil"]

\* addNode without the test of the weight.
addNodeAnyWeight(c, member, weight) ==
    IF member \in c.members \/ member = EmptyName
    THEN [c |-> c, err |-> "member already exists or empty"]
    ELSE LET reg == [c EXCEPT !.members = c.members \cup {member},
                             !.weights = MapPut(c.weights, member, weight)]
         IN  [c |-> sortRing(addVirtualNodes(reg, member, 0, c.replicas * weight)),
              err |-> "nil"]

\* addNode: the ring after the call, and whether it returned an error.
addNode(c, member, weight) ==
    IF weight <= 0 THEN [c |-> c, err |-> "weight must be positive"]
    ELSE IF member \in c.members \/ member = EmptyName
    THEN [c |-> c, err |-> "member already exists or empty"]
    ELSE LET reg == [c EXCEPT !.members = c.members \cup {member},
                             !.weights = MapPut(c.weights, member, weight)]
         IN  [c |-> sortRing(addVirtualNodes(reg, member, 0, c.replicas * weight)),
              err |-> "nil"]

RECURSIVE AddAllUntilError(_, _)
\* Add(members...) returning at the first name addNode rejects.
AddAllUntilError(c, names) ==
    IF names = << >> THEN c
    ELSE LET res == addNode(c, Head(names), DefaultWeight)
         IN  IF res.err # "nil" THEN c ELSE AddAllUntilError(res.c, Tail(names))

RECURSIVE AddAll(_, _)
\* Add(members...): addNode for each name in turn, its error dropped.
AddAll(c, names) ==
    IF names = << >> THEN c
    ELSE AddAll(addNode(c, Head(names), DefaultWeight).c, Tail(names))

RECURSIVE Search(_, _, _, _)
\* sort.Search on [lo, hi) with f(i) = ring[i] >= h (indices from 0).
Search(r, h, lo, hi) ==
    IF lo >= hi THEN lo
    ELSE LET mid == (lo + hi) \div 2
         IN  IF r[mid + 1] >= h THEN Search(r, h, lo, mid)
             ELSE Search(r, h, mid + 1, hi)

\* findNode searching for the first position > h instead of >= h.
findNodeStrict(c, h) ==
    LET found == Search(c.ring, h + 1, 0, Len(c.ring))
        idx == IF found = Len(c.ring) THEN 0 ELSE found
    IN  [idx |-> idx, node |-> MapGet(c.hashMap, c.ring[idx + 1])]

\* findNode: the index (from 0) and the node.
findNode(c, h) ==
    LET found == Search(c.ring, h, 0, Len(c.ring))
        idx == IF found = Len(c.ring) THEN 0 ELSE found
    IN  [idx |-> idx, node |-> MapGet(c.hashMap, c.ring[idx + 1])]

Get(c, key) ==
    IF Len(c.ring) = 0 THEN EmptyName ELSE findNode(c, hashKey(c, key)).node

SeqToSet(s) == {s[i] : i \in 1..Len(s)}

RECURSIVE walk(_, _, _, _, _)
\* The loop of GetN.  `unique` is the result as a set.  `idle` counts the
\* iterations since the last append: after len(c.ring) of them the walk has
\* seen every position without finding a new node, and since nothing it
\* reads changes, the loop never ends.
walk(c, n, idx, result, idle) ==
    IF ~(Len(result) < n /\ Len(result) < Cardinality(c.members))
    THEN [returns |-> TRUE, result |-> result]
    ELSE IF idle >= Len(c.ring)
    THEN [returns |-> FALSE, result |-> result]
    ELSE LET member == MapGet(c.hashMap, c.ring[idx + 1])
             next == (idx + 1) % Len(c.ring)
         IN  IF member \notin SeqToSet(result)
             THEN walk(c, n, next, Append(result, member), 0)
             ELSE walk(c, n, next, result, idle + 1)

\* GetN: whether the call returns, and the list it returns (nil as << >>).
GetN(c, key, n) ==
    IF n <= 0 THEN [returns |-> TRUE, result |-> << >>]
    ELSE IF Len(c.ring) = 0 THEN [returns |-> TRUE, result |-> << >>]
    ELSE walk(c, n, findNode(c, hashKey(c, key)).idx, << >>, 0)

RECURSIVE deleteVirtualNodes(_, _, _, _)
\* The loop of Remove: for i := i; i < n; i++ { delete(c.hashMap, hash) }.
deleteVirtualNodes(c, member, i, n) ==
    IF i >= n THEN c
    ELSE deleteVirtualNodes(
             [c EXCEPT !.hashMap = MapDelete(c.hashMap, hashKey(c, formatKey(member, i)))],
             member, i + 1, n)

RECURSIVE SetToSortedSeq(_)
SetToSortedSeq(S) ==
    IF S = {} THEN << >>
    ELSE LET m == CHOOSE x \in S : \A y \in S : x <= y
         IN  <<m>> \o SetToSortedSeq(S \ {m})

\* The ring Remove rebuilds: the keys of c.hashMap in the map's iteration
\* order, then sorted ascending, which leaves one sequence whatever the order.
rebuildRing(c) == [c EXCEPT !.ring = SetToSortedSeq(DOMAIN c.hashMap)]

\* One iteration of Remove's loop over its names.
removeNode(c, member) ==
    IF member \notin c.members \/ member = EmptyName THEN c
    ELSE LET n == c.replicas * c.weights[member]
             unreg == [c EXCEPT !.members = c.members \ {member},
                               !.weights = MapDelete(c.weights, member)]
         IN  rebuildRing(deleteVirtualNodes(unreg, member, 0, n))

RECURSIVE RemoveAllUntilAbsent(_, _)
\* Remove(members...) returning at the first name it has to skip.
RemoveAllUntilAbsent(c, names) ==
    IF names = << >> THEN c
    ELSE IF Head(names) \notin c.members \/ Head(names) = EmptyName THEN c
    ELSE RemoveAllUntilAbsent(removeNode(c, Head(names)), Tail(names))

RECURSIVE RemoveAll(_, _)
RemoveAll(c, names) ==
    IF names = << >> THEN c
    ELSE RemoveAll(removeNode(c, Head(names)), Tail(names))

\* Members(): the names in no defined order, as a set.
Members(c) == c.members

\* c.weights[member]: the zero value 0 for a missing key.
WeightOf(c, member) == IF member \in DOMAIN c.weights THEN c.weights[member] ELSE 0

RECURSIVE SumOver(_, _)
\* The sum of f[x] over the x of S.
SumOver(f, S) ==
    IF S = {} THEN 0
    ELSE LET x == CHOOSE y \in S : TRUE IN f[x] + SumOver(f, S \ {x})

\* A float64 as the quotient it was computed from; 0/0 is NaN and x/0 is
\* +Inf for x > 0, as IEEE 754 division gives them.
Float(num, den) ==
    IF den = 0
    THEN [class |-> IF num = 0 THEN "NaN" ELSE "+Inf", num |-> 0, den |-> 1]
    ELSE [class |-> "finite", num |-> num, den |-> den]

ZeroFloat == [class |-> "finite", num |-> 0, den |-> 1]

\* The portion of the ring entry at index i (from 0): the distance to the
\* next entry, measured through the largest position when the next entry is
\* not above it.
Portion(c, i) ==
    LET start == c.ring[i + 1]
        end == c.ring[((i + 1) % Len(c.ring)) + 1]
    IN  IF end > start THEN end - start ELSE MaxPosition - start + end

\* The portions of the entries whose position the table gives to member.
PortionsOf(c, member) ==
    LET idxs == {i \in 0..(Len(c.ring) - 1) : MapGet(c.hashMap, c.ring[i + 1]) = member}
    IN  SumOver([i \in idxs |-> Portion(c, i)], idxs)

\* portion / MaxPosition * 100, rounded to four decimals by
\* math.Round(x * precision) / precision: the result in units of 1/10000
\* of a percent.
RoundedPercent(portion) == (2 * portion * 1000000 + MaxPosition) \div (2 * MaxPosition)

\* GetStats(): the snapshot it returns.
GetStats(c) ==
    LET loaded == IF Len(c.ring) = 0 THEN {}
                  ELSE c.members \cup {MapGet(c.hashMap, c.ring[i]) : i \in 1..Len(c.ring)}
        weight == [m \in c.members |-> WeightOf(c, m)]
    IN  [TotalPhysicalNodes |-> Cardinality(c.members),
         TotalHashNodes |-> Len(c.ring),
         AverageWeight |-> Float(SumOver(weight, c.members), Cardinality(c.members)),
         WeightDistribution |-> weight,
         LoadDistribution |-> [m \in loaded |-> RoundedPercent(PortionsOf(c, m))]]

\* A read that rebuilds the ring from the position table before it answers.
RingAfterReadRebuilt(c) == rebuildRing(c)

\* The ring a call of Get, GetN, GetStats or Members leaves: the four
\* methods assign no field of c.
RingAfterRead(c) == c

\* What the lock guards: the ring, the two tables and the node set.
Content(c) ==
    [ring |-> c.ring, weights |-> c.weights, hashMap |-> c.hashMap,
     members |-> c.members]

----------------------------------------------------------------------------
(* The calls, one action per public method, each taken as a whole: the     *)
(* ring as one caller at a time sees it.  The setters are called at most   *)
(* once in a run, which keeps the reachable rings few.                     *)

\* The argument lists of Add and Remove.
Batches == UNION {[1..k -> Names] : k \in 0..MaxBatch}

\* The base-replica counts a Config or SetVirtualReplicas carries.  A
\* negative count behaves as 0 in every loop that reads it.
ReplicaArgs == {0, 1}

\* The weights AddWithWeight is called with; 0 is not a valid weight.
WeightArgs == {0, 1, 2}

NArgs == 0..MaxN

\* A GetN that never returns keeps its caller inside the call.
Hung == call.op = "GetN" /\ call.outcome = "hangs"

SetRing(c) ==
    /\ replicas' = c.replicas
    /\ hash' = c.hash
    /\ ring' = c.ring
    /\ weights' = c.weights
    /\ hashMap' = c.hashMap
    /\ members' = c.members

\* No second ring.
NoOther ==
    [config |-> "none", ownReplicas |-> 0, created |-> 0, set |-> FALSE,
     hash |-> "nil", ring |-> << >>, weights |-> EmptyMap, hashMap |-> EmptyMap,
     members |-> {}]

\* The threads of the concurrent specification, none of which has started.
Threads == {"t1", "t2"}

NoLocals ==
    [op |-> "none", names |-> << >>, member |-> EmptyName, weight |-> 0,
     i |-> 0, n |-> 0, key |-> << >>, idx |-> 0, hasher |-> "nil",
     replicas |-> 0, node |-> EmptyName, result |-> << >>, all |-> {},
     stats |-> [TotalPhysicalNodes |-> 0, TotalHashNodes |-> 0,
                AverageWeight |-> ZeroFloat, WeightDistribution |-> << >>,
                LoadDistribution |-> << >>],
     outcome |-> "none"]

NoThreads ==
    /\ pc = [t \in Threads |-> "idle"]
    /\ loc = [t \in Threads |-> NoLocals]
    /\ writer = "none"
    /\ readers = {}
    /\ committed = Content(Self)

Init ==
    /\ \E r \in ReplicaArgs, h \in Hashers :
           LET c == New(r, h)
           IN  /\ replicas = c.replicas
               /\ hash = c.hash
               /\ ring = c.ring
               /\ weights = c.weights
               /\ hashMap = c.hashMap
               /\ members = c.members
    /\ call = [op |-> "New", outcome |-> "returns"]
    /\ reconfigured = FALSE
    /\ NoThreads
    /\ other = NoOther

DoSetHasher ==
    /\ ~Hung
    /\ UNCHANGED <<threadVars, other>>
    /\ ~reconfigured
    /\ reconfigured' = TRUE
    /\ \E h \in Hashers \cup {"nil"} :
           /\ hash' = IF h = "nil" THEN hash ELSE h
           /\ call' = [op |-> "SetHasher",
                       outcome |-> IF h = "nil" THEN "panics" ELSE "returns"]
    /\ UNCHANGED <<replicas, ring, weights, hashMap, members>>

DoSetVirtualReplicas ==
    /\ ~Hung
    /\ UNCHANGED <<threadVars, other>>
    /\ ~reconfigured
    /\ reconfigured' = TRUE
    /\ \E r \in ReplicaArgs : SetRing(SetVirtualReplicas(Self, r))
    /\ call' = [op |-> "SetVirtualReplicas", outcome |-> "returns"]

DoAdd ==
    /\ ~Hung
    /\ UNCHANGED <<threadVars, other>>
    /\ \E names \in Batches : SetRing(AddAll(Self, names))
    /\ call' = [op |-> "Add", outcome |-> "returns"]
    /\ UNCHANGED reconfigured

DoAddWithWeight ==
    /\ ~Hung
    /\ UNCHANGED <<threadVars, other>>
    /\ \E member \in Names, weight \in WeightArgs :
           LET res == addNode(Self, member, weight)
           IN  /\ SetRing(res.c)
               /\ call' = [op |-> "AddWithWeight",
                           outcome |-> IF res.err = "nil" THEN "returns" ELSE "error"]
    /\ UNCHANGED reconfigured

DoRemove ==
    /\ ~Hung
    /\ UNCHANGED <<threadVars, other>>
    /\ \E names \in Batches : SetRing(RemoveAll(Self, names))
    /\ call' = [op |-> "Remove", outcome |-> "returns"]
    /\ UNCHANGED reconfigured

DoGet ==
    /\ ~Hung
    /\ UNCHANGED <<threadVars, other>>
    /\ \E key \in Keys :
           call' = [op |-> "Get",
                    outcome |-> IF Get(Self, key) \in Names THEN "returns" ELSE "fails"]
    /\ SetRing(RingAfterRead(Self))
    /\ UNCHANGED reconfigured

DoGetN ==
    /\ ~Hung
    /\ UNCHANGED <<threadVars, other>>
    /\ \E key \in Keys, n \in NArgs :
           call' = [op |-> "GetN",
                    outcome |-> IF GetN(Self, key, n).returns THEN "returns" ELSE "hangs"]
    /\ SetRing(RingAfterRead(Self))
    /\ UNCHANGED reconfigured

DoMembers ==
    /\ ~Hung
    /\ UNCHANGED <<threadVars, other>>
    /\ call' = [op |-> "Members",
                outcome |-> IF Members(Self) \subseteq Nodes THEN "returns" ELSE "fails"]
    /\ SetRing(RingAfterRead(Self))
    /\ UNCHANGED reconfigured

DoGetStats ==
    /\ ~Hung
    /\ UNCHANGED <<threadVars, other>>
    /\ call' = [op |-> "GetStats",
                outcome |-> IF GetStats(Self).AverageWeight.class = "finite"
                            THEN "returns" ELSE "returns NaN"]
    /\ SetRing(RingAfterRead(Self))
    /\ UNCHANGED reconfigured

Next ==
    \/ DoSetHasher
    \/ DoSetVirtualReplicas
    \/ DoAdd
    \/ DoAddWithWeight
    \/ DoRemove
    \/ DoGet
    \/ DoGetN
    \/ DoMembers
    \/ DoGetStats

Spec == Init /\ [][Next]_vars

----------------------------------------------------------------------------
(* The methods step by step, run by threads: each step is one statement    *)
(* (or one loop iteration) of the method, and the lock is c.RWMutex.  The  *)
(* ring is first filled by one Add, then every thread makes one call.      *)
(* SetHasher and SetVirtualReplicas take no lock: a read of c.hash or of   *)
(* c.config.Replicas that runs beside such a write sees the old value or   *)
(* the value being written.                                                *)

\* The Add that fills the ring before the threads start.
PreloadBatches == {<< >>, <<NodeA>>, <<NodeA, NodeB>>}

\* The keys the threads look up.
ThreadKeys == {ShortKey(0), ShortKey(3)}

\* The calls a thread chooses from.
CallMenu ==
    {[NoLocals EXCEPT !.op = "Add", !.names = names] :
        names \in {<<NodeC>>, <<NodeB, NodeC>>}}
    \cup {[NoLocals EXCEPT !.op = "AddWithWeight", !.member = a[1], !.weight = a[2]] :
        a \in {<<NodeC, 0>>, <<NodeC, 2>>, <<NodeA, 2>>, <<EmptyName, 1>>}}
    \cup {[NoLocals EXCEPT !.op = "Remove", !.names = names] :
        names \in {<<NodeA>>, <<NodeB, NodeA>>}}
    \cup {[NoLocals EXCEPT !.op = "Get", !.key = k] : k \in ThreadKeys}
    \cup {[NoLocals EXCEPT !.op = "GetN", !.key = k, !.n = n] :
        k \in ThreadKeys, n \in NArgs}
    \cup {[NoLocals EXCEPT !.op = "Members"], [NoLocals EXCEPT !.op = "GetStats"]}
    \cup {[NoLocals EXCEPT !.op = "SetHasher", !.hasher = h] : h \in Hashers}
    \cup {[NoLocals EXCEPT !.op = "SetVirtualReplicas", !.replicas = r] :
        r \in ReplicaArgs}

\* The first statement of each method.
Entry(op) ==
    CASE op \in {"Add", "AddWithWeight", "Remove"} -> "Lock"
      [] op \in {"Get", "Members", "GetStats"} -> "RLock"
      [] op = "GetN" -> "GetN.entry"
      [] op = "SetHasher" -> "SetHasher.check"
      [] op = "SetVirtualReplicas" -> "SetVirtualReplicas.write"

\* The statement after c.Lock() and after c.RLock().
AfterLock(op) ==
    CASE op = "Add" -> "Add.range"
      [] op = "AddWithWeight" -> "addNode.check"
      [] op = "Remove" -> "Remove.range"

AfterRLock(op) ==
    CASE op = "Get" -> "Get.read"
      [] op = "GetN" -> "GetN.find"
      [] op = "Members" -> "Members.read"
      [] op = "GetStats" -> "GetStats.read"

\* addNode returning to a caller that has no deferred c.Unlock().
AfterAddNodeNoUnlock(op) == IF op = "Add" THEN "Add.range" ELSE "done"

\* Where addNode returns to.
AfterAddNode(op) == IF op = "Add" THEN "Add.range" ELSE "Unlock"

\* c.Lock() returns when no thread holds the lock in either mode.
CanLockIgnoringReaders == writer = "none"

CanLock == writer = "none" /\ readers = {}

\* c.RLock() returns when no thread holds the write lock.
CanRLock == writer = "none"

\* The values a read of c.hash by thread t can return.
HashSeenBy(t) ==
    {hash} \cup {loc[u].hasher : u \in {v \in Threads \ {t} : pc[v] = "SetHasher.write"}}

\* The values a read of c.config.Replicas by thread t can return.
ReplicasSeenBy(t) ==
    {replicas} \cup
    {loc[u].replicas :
        u \in {v \in Threads \ {t} : pc[v] = "SetVirtualReplicas.write"}}

Goto(t, label) == pc' = [pc EXCEPT ![t] = label]

InitC ==
    /\ \E h \in Hashers, names \in PreloadBatches :
           LET c == AddAll(New(1, h), names)
           IN  /\ replicas = c.replicas
               /\ hash = c.hash
               /\ ring = c.ring
               /\ weights = c.weights
               /\ hashMap = c.hashMap
               /\ members = c.members
    /\ call = [op |-> "New", outcome |-> "returns"]
    /\ reconfigured = FALSE
    /\ NoThreads
    /\ other = NoOther

\* A thread calls a method.
Call(t) ==
    /\ pc[t] = "idle"
    /\ \E c \in CallMenu :
           /\ loc' = [loc EXCEPT ![t] = c]
           /\ Goto(t, Entry(c.op))
    /\ UNCHANGED <<ringVars, call, reconfigured, other, writer, readers, committed>>

\* c.Lock()
Lock(t) ==
    /\ pc[t] = "Lock"
    /\ CanLock
    /\ writer' = t
    /\ Goto(t, AfterLock(loc[t].op))
    /\ UNCHANGED <<ringVars, call, reconfigured, other, loc, readers, committed>>

\* defer c.Unlock()
Unlock(t) ==
    /\ pc[t] = "Unlock"
    /\ writer' = "none"
    /\ committed' = Content(Self)
    /\ Goto(t, "done")
    /\ UNCHANGED <<ringVars, call, reconfigured, other, loc, readers>>

\* c.RLock()
RLock(t) ==
    /\ pc[t] = "RLock"
    /\ CanRLock
    /\ readers' = readers \cup {t}
    /\ Goto(t, AfterRLock(loc[t].op))
    /\ UNCHANGED <<ringVars, call, reconfigured, other, loc, writer, committed>>

\* defer c.RUnlock()
RUnlock(t) ==
    /\ pc[t] = "RUnlock"
    /\ readers' = readers \ {t}
    /\ Goto(t, "done")
    /\ UNCHANGED <<ringVars, call, reconfigured, other, loc, writer, committed>>

\* Add: for _, member := range members { _ = c.addNode(member, DefaultWeight) }
AddRange(t) ==
    /\ pc[t] = "Add.range"
    /\ IF loc[t].names = << >>
       THEN /\ Goto(t, "Unlock")
            /\ UNCHANGED loc
       ELSE /\ loc' = [loc EXCEPT ![t].member = Head(loc[t].names),
                                  ![t].weight = DefaultWeight,
                                  ![t].names = Tail(loc[t].names)]
            /\ Goto(t, "addNode.check")
    /\ UNCHANGED <<ringVars, call, reconfigured, other, writer, readers, committed>>

\* addNode: the two tests, then c.members[member], c.weights[member].
AddNodeCheck(t) ==
    /\ pc[t] = "addNode.check"
    /\ IF loc[t].weight <= 0
       THEN /\ loc' = [loc EXCEPT ![t].outcome = "weight must be positive"]
            /\ Goto(t, AfterAddNode(loc[t].op))
            /\ UNCHANGED <<members, weights>>
       ELSE IF loc[t].member \in members \/ loc[t].member = EmptyName
       THEN /\ loc' = [loc EXCEPT ![t].outcome = "member already exists or empty"]
            /\ Goto(t, AfterAddNode(loc[t].op))
            /\ UNCHANGED <<members, weights>>
       ELSE /\ members' = members \cup {loc[t].member}
            /\ weights' = MapPut(weights, loc[t].member, loc[t].weight)
            /\ Goto(t, "addNode.replicas")
            /\ UNCHANGED loc
    /\ UNCHANGED <<replicas, hash, ring, hashMap, call, reconfigured, other, writer,
                   readers, committed>>

\* addNode: replicas := c.config.Replicas * weight
AddNodeReplicas(t) ==
    /\ pc[t] = "addNode.replicas"
    /\ \E r \in ReplicasSeenBy(t) :
           loc' = [loc EXCEPT ![t].n = r * loc[t].weight, ![t].i = 0]
    /\ Goto(t, "addNode.loop")
    /\ UNCHANGED <<ringVars, call, reconfigured, other, writer, readers, committed>>

\* addNode: one iteration of the loop over the virtual nodes.
AddNodeLoop(t) ==
    /\ pc[t] = "addNode.loop"
    /\ IF loc[t].i < loc[t].n
       THEN /\ \E h \in HashSeenBy(t) :
                   LET pos == hashKey([Self EXCEPT !.hash = h],
                                      formatKey(loc[t].member, loc[t].i))
                   IN  /\ ring' = Append(ring, pos)
                       /\ hashMap' = MapPut(hashMap, pos, loc[t].member)
            /\ loc' = [loc EXCEPT ![t].i = loc[t].i + 1]
            /\ UNCHANGED pc
       ELSE /\ Goto(t, "addNode.sort")
            /\ UNCHANGED <<ring, hashMap, loc>>
    /\ UNCHANGED <<replicas, hash, weights, members, call, reconfigured, other, writer,
                   readers, committed>>

\* addNode: c.sortRing(); return nil
AddNodeSort(t) ==
    /\ pc[t] = "addNode.sort"
    /\ ring' = sortRing(Self).ring
    /\ loc' = [loc EXCEPT ![t].outcome = "nil"]
    /\ Goto(t, AfterAddNode(loc[t].op))
    /\ UNCHANGED <<replicas, hash, weights, hashMap, members, call, reconfigured, other,
                   writer, readers, committed>>

\* Remove: the head of the loop over the names, to the two deletes.
RemoveRange(t) ==
    /\ pc[t] = "Remove.range"
    /\ IF loc[t].names = << >>
       THEN /\ Goto(t, "Unlock")
            /\ UNCHANGED <<loc, members, weights>>
       ELSE LET member == Head(loc[t].names)
            IN  IF member \notin members \/ member = EmptyName
                THEN /\ loc' = [loc EXCEPT ![t].names = Tail(loc[t].names)]
                     /\ UNCHANGED <<pc, members, weights>>
                ELSE /\ \E r \in ReplicasSeenBy(t) :
                            loc' = [loc EXCEPT ![t].names = Tail(loc[t].names),
                                               ![t].member = member,
                                               ![t].n = r * WeightOf(Self, member),
                                               ![t].i = 0]
                     /\ members' = members \ {member}
                     /\ weights' = MapDelete(weights, member)
                     /\ Goto(t, "Remove.loop")
    /\ UNCHANGED <<replicas, hash, ring, hashMap, call, reconfigured, other, writer,
                   readers, committed>>

\* Remove: one iteration of the loop that deletes the virtual nodes.
RemoveLoop(t) ==
    /\ pc[t] = "Remove.loop"
    /\ IF loc[t].i < loc[t].n
       THEN /\ \E h \in HashSeenBy(t) :
                   hashMap' = MapDelete(hashMap,
                                  hashKey([Self EXCEPT !.hash = h],
                                          formatKey(loc[t].member, loc[t].i)))
            /\ loc' = [loc EXCEPT ![t].i = loc[t].i + 1]
            /\ UNCHANGED pc
       ELSE /\ Goto(t, "Remove.rebuild")
            /\ UNCHANGED <<hashMap, loc>>
    /\ UNCHANGED <<replicas, hash, ring, weights, members, call, reconfigured, other,
                   writer, readers, committed>>

\* Remove: the ring rebuilt from the table, sorted, and assigned.
RemoveRebuild(t) ==
    /\ pc[t] = "Remove.rebuild"
    /\ ring' = rebuildRing(Self).ring
    /\ Goto(t, "Remove.range")
    /\ UNCHANGED <<replicas, hash, weights, hashMap, members, call, reconfigured, other,
                   loc, writer, readers, committed>>

\* Get, under the read lock.
GetRead(t) ==
    /\ pc[t] = "Get.read"
    /\ IF Len(ring) = 0
       THEN loc' = [loc EXCEPT ![t].node = EmptyName]
       ELSE \E h \in HashSeenBy(t) :
                loc' = [loc EXCEPT ![t].node =
                            findNode(Self, hashKey([Self EXCEPT !.hash = h],
                                                   loc[t].key)).node]
    /\ Goto(t, "RUnlock")
    /\ UNCHANGED <<ringVars, call, reconfigured, other, writer, readers, committed>>

\* GetN: if n <= 0 { return nil }, before the lock is taken.
GetNEntry(t) ==
    /\ pc[t] = "GetN.entry"
    /\ Goto(t, IF loc[t].n <= 0 THEN "done" ELSE "RLock")
    /\ UNCHANGED <<ringVars, call, reconfigured, other, loc, writer, readers, committed>>

\* GetN: the empty-ring test and findNode.
GetNFind(t) ==
    /\ pc[t] = "GetN.find"
    /\ IF Len(ring) = 0
       THEN /\ Goto(t, "RUnlock")
            /\ UNCHANGED loc
       ELSE /\ \E h \in HashSeenBy(t) :
                   loc' = [loc EXCEPT ![t].idx =
                               findNode(Self, hashKey([Self EXCEPT !.hash = h],
                                                      loc[t].key)).idx]
            /\ Goto(t, "GetN.loop")
    /\ UNCHANGED <<ringVars, call, reconfigured, other, writer, readers, committed>>

\* GetN: the loop test and one iteration of the walk.
GetNLoop(t) ==
    /\ pc[t] = "GetN.loop"
    /\ IF Len(loc[t].result) < loc[t].n /\ Len(loc[t].result) < Cardinality(members)
       THEN LET member == MapGet(hashMap, ring[loc[t].idx + 1])
            IN  /\ loc' = [loc EXCEPT
                             ![t].result =
                                 IF member \in SeqToSet(loc[t].result)
                                 THEN loc[t].result
                                 ELSE Append(loc[t].result, member),
                             ![t].idx = (loc[t].idx + 1) % Len(ring)]
                /\ UNCHANGED pc
       ELSE /\ Goto(t, "RUnlock")
            /\ UNCHANGED loc
    /\ UNCHANGED <<ringVars, call, reconfigured, other, writer, readers, committed>>

\* Members, under the read lock.
MembersRead(t) ==
    /\ pc[t] = "Members.read"
    /\ loc' = [loc EXCEPT ![t].all = Members(Self)]
    /\ Goto(t, "RUnlock")
    /\ UNCHANGED <<ringVars, call, reconfigured, other, writer, readers, committed>>

\* GetStats, under the read lock.
GetStatsRead(t) ==
    /\ pc[t] = "GetStats.read"
    /\ loc' = [loc EXCEPT ![t].stats = GetStats(Self)]
    /\ Goto(t, "RUnlock")
    /\ UNCHANGED <<ringVars, call, reconfigured, other, writer, readers, committed>>

\* SetHasher: the nil test (a thread passes a hasher, never nil).
SetHasherCheck(t) ==
    /\ pc[t] = "SetHasher.check"
    /\ Goto(t, IF loc[t].hasher = "nil" THEN "done" ELSE "SetHasher.write")
    /\ UNCHANGED <<ringVars, call, reconfigured, other, loc, writer, readers, committed>>

\* SetHasher: c.hash = hash
SetHasherWrite(t) ==
    /\ pc[t] = "SetHasher.write"
    /\ hash' = loc[t].hasher
    /\ Goto(t, "done")
    /\ UNCHANGED <<replicas, ring, weights, hashMap, members, call, reconfigured, other,
                   loc, writer, readers, committed>>

\* SetVirtualReplicas: c.config.Replicas = replicas
SetVirtualReplicasWrite(t) ==
    /\ pc[t] = "SetVirtualReplicas.write"
    /\ replicas' = loc[t].replicas
    /\ Goto(t, "done")
    /\ UNCHANGED <<hash, ring, weights, hashMap, members, call, reconfigured, other,
                   loc, writer, readers, committed>>

Step(t) ==
    \/ Call(t)
    \/ Lock(t)
    \/ Unlock(t)
    \/ RLock(t)
    \/ RUnlock(t)
    \/ AddRange(t)
    \/ AddNodeCheck(t)
    \/ AddNodeReplicas(t)
    \/ AddNodeLoop(t)
    \/ AddNodeSort(t)
    \/ RemoveRange(t)
    \/ RemoveLoop(t)
    \/ RemoveRebuild(t)
    \/ GetRead(t)
    \/ GetNEntry(t)
    \/ GetNFind(t)
    \/ GetNLoop(t)
    \/ MembersRead(t)
    \/ GetStatsRead(t)
    \/ SetHasherCheck(t)
    \/ SetHasherWrite(t)
    \/ SetVirtualReplicasWrite(t)

NextC == \E t \in Threads : Step(t)

SpecC == InitC /\ [][NextC]_vars

\* Every thread that can take a step eventually takes one: the scheduler
\* runs every runnable goroutine.
FairSpecC == SpecC /\ \A t \in Threads : WF_vars(Step(t))

----------------------------------------------------------------------------
(* The first definition of the package in src/consistent_hash.go (lines    *)
(* 1-337): the same fields, New, Get and hashKey, an Add that sorts once   *)
(* after its batch, and a Remove that rebuilds the ring from the position  *)
(* table and does not sort it.  The order in which Go ranges over a map is *)
(* not defined: the rebuilt ring holds the table's keys in any order.      *)

\* The orders in which a range over a map with the key set S can yield them.
Orders(S) ==
    {f \in [1..Cardinality(S) -> S] : \A i, j \in 1..Cardinality(S) : f[i] = f[j] => i = j}

RECURSIVE appendMembersV1(_, _)
\* The loop of the first Add over its names.
appendMembersV1(c, names) ==
    IF names = << >> THEN c
    ELSE LET member == Head(names)
         IN  IF member \in c.members \/ member = EmptyName
             THEN appendMembersV1(c, Tail(names))
             ELSE LET reg == [c EXCEPT !.members = c.members \cup {member},
                                      !.weights = MapPut(c.weights, member, DefaultWeight)]
                  IN  appendMembersV1(addVirtualNodes(reg, member, 0, c.replicas),
                                      Tail(names))

\* The first Add: the loop, then one sort.
AddV1(c, names) == sortRing(appendMembersV1(c, names))

\* The first AddWithWeight.
AddWithWeightV1(c, member, weight) ==
    IF weight <= 0 THEN [c |-> c, err |-> "weight must be positive"]
    ELSE IF member \in c.members \/ member = EmptyName
    THEN [c |-> c, err |-> "member already exists or empty"]
    ELSE LET reg == [c EXCEPT !.members = c.members \cup {member},
                             !.weights = MapPut(c.weights, member, weight)]
         IN  [c |-> sortRing(addVirtualNodes(reg, member, 0, c.replicas * weight)),
              err |-> "nil"]

\* One iteration of the first Remove's loop: the rings it can leave.
removeNodeV1(c, member) ==
    IF member \notin c.members \/ member = EmptyName THEN {c}
    ELSE LET n == c.replicas * c.weights[member]
             unreg == [c EXCEPT !.members = c.members \ {member},
                               !.weights = MapDelete(c.weights, member)]
             deleted == deleteVirtualNodes(unreg, member, 0, n)
         IN  {[deleted EXCEPT !.ring = newRing] : newRing \in Orders(DOMAIN deleted.hashMap)}

RECURSIVE RemoveV1(_, _)
\* The first Remove: the rings it can leave.
RemoveV1(c, names) ==
    IF names = << >> THEN {c}
    ELSE UNION {RemoveV1(d, Tail(names)) : d \in removeNodeV1(c, Head(names))}

DoAddV1 ==
    /\ \E names \in Batches : SetRing(AddV1(Self, names))
    /\ call' = [op |-> "Add", outcome |-> "returns"]
    /\ UNCHANGED <<reconfigured, threadVars, other>>

DoAddWithWeightV1 ==
    /\ \E member \in Names, weight \in WeightArgs :
           LET res == AddWithWeightV1(Self, member, weight)
           IN  /\ SetRing(res.c)
               /\ call' = [op |-> "AddWithWeight",
                           outcome |-> IF res.err = "nil" THEN "returns" ELSE "error"]
    /\ UNCHANGED <<reconfigured, threadVars, other>>

DoRemoveV1 ==
    /\ \E names \in Batches : \E c \in RemoveV1(Self, names) : SetRing(c)
    /\ call' = [op |-> "Remove", outcome |-> "returns"]
    /\ UNCHANGED <<reconfigured, threadVars, other>>

DoGetV1 ==
    /\ \E key \in Keys :
           call' = [op |-> "Get",
                    outcome |-> IF Get(Self, key) \in Names THEN "returns" ELSE "fails"]
    /\ UNCHANGED <<ringVars, reconfigured, threadVars, other>>

NextV1 ==
    \/ DoAddV1
    \/ DoAddWithWeightV1
    \/ DoRemoveV1
    \/ DoGetV1

SpecV1 == Init /\ [][NextV1]_vars

----------------------------------------------------------------------------
(* Two rings.  New keeps the *Config it is given (config: config, line     *)
(* 417), so c.config.Replicas is a field of the caller's Config object.    *)
(* The first ring is the one of the variables above, and `replicas` is the *)
(* Replicas field of the Config it was built from.  The second ring,       *)
(* `other`, was built by New either from that same Config object or from a *)
(* Config object of its own with the same field values.                    *)

\* The names the second ring is called with.
OtherNames == {NodeA, NodeB}

\* c.config.Replicas of the second ring.
OtherReplicas == IF other.config = "same" THEN replicas ELSE other.ownReplicas

\* The second ring as the receiver c of the methods.
Other ==
    [replicas |-> OtherReplicas, hash |-> other.hash, ring |-> other.ring,
     weights |-> other.weights, hashMap |-> other.hashMap, members |-> other.members]

\* The fields a method called on the second ring has assigned.
SetOther(c) ==
    other' = [other EXCEPT !.ring = c.ring, !.weights = c.weights,
                           !.hashMap = c.hashMap, !.members = c.members]

\* config := &Config{...}; first := New(config); then other := New(config),
\* or other := New(&Config{...}) with the same field values.
InitTwo ==
    /\ \E r \in ReplicaArgs, h \in Hashers, cfg \in {"same", "own"} :
           LET c == New(r, h)
           IN  /\ replicas = c.replicas
               /\ hash = c.hash
               /\ ring = c.ring
               /\ weights = c.weights
               /\ hashMap = c.hashMap
               /\ members = c.members
               /\ other = [config |-> cfg, ownReplicas |-> r, created |-> r,
                           set |-> FALSE, hash |-> c.hash, ring |-> c.ring,
                           weights |-> c.weights, hashMap |-> c.hashMap,
                           members |-> c.members]
    /\ call = [op |-> "New", outcome |-> "returns"]
    /\ reconfigured = FALSE
    /\ NoThreads

\* other.SetVirtualReplicas(n): the assignment goes to the Config object
\* the second ring points to.
DoOtherSetVirtualReplicas ==
    /\ \E n \in ReplicaArgs :
           IF other.config = "same"
           THEN /\ replicas' = n
                /\ other' = [other EXCEPT !.set = TRUE]
           ELSE /\ other' = [other EXCEPT !.ownReplicas = n, !.set = TRUE]
                /\ UNCHANGED replicas
    /\ call' = [op |-> "SetVirtualReplicas", outcome |-> "returns"]
    /\ UNCHANGED <<hash, ring, weights, hashMap, members, reconfigured, threadVars>>

\* other.Add(name)
DoOtherAdd ==
    /\ \E name \in OtherNames : SetOther(AddAll(Other, <<name>>))
    /\ call' = [op |-> "Add", outcome |-> "returns"]
    /\ UNCHANGED <<ringVars, reconfigured, threadVars>>

\* other.Remove(name)
DoOtherRemove ==
    /\ \E name \in OtherNames : SetOther(RemoveAll(Other, <<name>>))
    /\ call' = [op |-> "Remove", outcome |-> "returns"]
    /\ UNCHANGED <<ringVars, reconfigured, threadVars>>

\* first.Add(name)
DoFirstAdd ==
    /\ \E name \in OtherNames : SetRing(AddAll(Self, <<name>>))
    /\ call' = [op |-> "Add", outcome |-> "returns"]
    /\ UNCHANGED <<reconfigured, threadVars, other>>

\* first.Remove(name)
DoFirstRemove ==
    /\ \E name \in OtherNames : SetRing(RemoveAll(Self, <<name>>))
    /\ call' = [op |-> "Remove", outcome |-> "returns"]
    /\ UNCHANGED <<reconfigured, threadVars, other>>

NextTwo ==
    \/ DoSetVirtualReplicas
    \/ DoFirstAdd
    \/ DoFirstRemove
    \/ DoOtherSetVirtualReplicas
    \/ DoOtherAdd
    \/ DoOtherRemove

SpecTwo == InitTwo /\ [][NextTwo]_vars

----------------------------------------------------------------------------
(* What the claims speak of, stated apart from the code's algorithms.      *)

Min(S) == CHOOSE x \in S : \A y \in S : x <= y

MinOf(a, b) == IF a <= b THEN a ELSE b

\* The first position of the set P at or clockwise after h: the smallest
\* position >= h, and the smallest position of all when there is none.
FirstAtOrAfter(P, h) ==
    LET ge == {p \in P : p >= h}
    IN  IF ge = {} THEN Min(P) ELSE Min(ge)

RingPositions(c) == SeqToSet(c.ring)

\* The nodes that own a position of the ring.
Owners(c) == {MapGet(c.hashMap, p) : p \in RingPositions(c)}

IsPrefix(s, t) == Len(s) <= Len(t) /\ \A i \in 1..Len(s) : s[i] = t[i]

NoDuplicates(s) == \A i, j \in 1..Len(s) : i # j => s[i] # s[j]

\* C1: on a non-empty ring Get(k) is the node the position table gives to
\* the smallest ring position >= hash(k), and to the smallest ring position
\* when hash(k) is above them all.
C1_GetFirstAtOrAfter ==
    Len(ring) > 0 =>
        \A k \in Keys :
            LET p == FirstAtOrAfter(RingPositions(Self), hashKey(Self, k))
            IN  /\ p \in DOMAIN hashMap
                /\ Get(Self, k) = hashMap[p]

\* A ring of three nodes, just looked up, with a key above every position
\* (the wrap-around) and a key strictly inside the ring.
C1_Witness ==
    /\ call.op = "Get"
    /\ Cardinality(Owners(Self)) = 3
    /\ \E k \in Keys : \A p \in RingPositions(Self) : hashKey(Self, k) > p
    /\ \E k \in Keys :
           /\ \E p \in RingPositions(Self) : hashKey(Self, k) > p
           /\ \E p \in RingPositions(Self) : hashKey(Self, k) < p
           /\ hashKey(Self, k) \notin RingPositions(Self)

\* C2: adding an absent node D moves a key only to D: for every key,
\* Get after Add(D) is Get before it, or D.
C2_GrowthStable ==
    \A D \in Nodes \ members :
        LET after == AddAll(Self, <<D>>)
        IN  \A k \in Keys : Get(after, k) \in {Get(Self, k), D}

\* After an Add, a ring of two nodes where adding the third takes some key
\* from a node and leaves some key of each present node where it was.
C2_Witness ==
    /\ call.op = "Add"
    /\ Cardinality(members) = 2
    /\ \E D \in Nodes \ members :
           LET after == AddAll(Self, <<D>>)
           IN  /\ \E k \in Keys : Get(Self, k) \in members /\ Get(after, k) = D
               /\ \A m \in members :
                      \E k \in Keys : Get(Self, k) = m /\ Get(after, k) = m

\* C10: Add(X) of a present node X changes nothing: the ring positions, the
\* position table, the node set, the weights and every Get are as before.
C10_AddPresentIsNoOp ==
    \A X \in members :
        LET after == AddAll(Self, <<X>>)
        IN  /\ after.ring = ring
            /\ after.hashMap = hashMap
            /\ after.members = members
            /\ after.weights = weights
            /\ \A k \in Keys : Get(after, k) = Get(Self, k)

\* An Add has just returned on a ring that holds a node of weight 2, which
\* only AddWithWeight gives, and a node of weight 1.
C10_Witness ==
    /\ call.op = "Add"
    /\ Len(ring) > 0
    /\ \E X \in members : weights[X] = 2 /\ AddAll(Self, <<X>>) = Self
    /\ \E X \in members : weights[X] = 1 /\ AddAll(Self, <<X>>) = Self

\* C3 as claimed: Remove(X) leaves every key of another node where it was,
\* and moves a key of X to the owner of the first remaining position
\* clockwise from the position it was on.
C3_ShrinkStable ==
    \A X \in members :
        LET after == RemoveAll(Self, <<X>>)
            remaining == {p \in RingPositions(Self) : MapGet(hashMap, p) # X}
        IN  \A k \in Keys :
                LET m == Get(Self, k)
                IN  IF m # X THEN Get(after, k) = m
                    ELSE LET p == FirstAtOrAfter(RingPositions(Self), hashKey(Self, k))
                         IN  Get(after, k) =
                                 IF remaining = {} THEN EmptyName
                                 ELSE MapGet(hashMap, FirstAtOrAfter(remaining, p))

\* C4 as claimed: after Remove(X) of a present node X, X is no member, no
\* entry of the position table maps to X, and no Get or GetN returns X.
C4_RemovedIsGone ==
    \A X \in members :
        LET after == RemoveAll(Self, <<X>>)
        IN  /\ X \notin Members(after)
            /\ \A p \in DOMAIN after.hashMap : after.hashMap[p] # X
            /\ \A k \in Keys :
                   /\ Get(after, k) # X
                   /\ \A n \in NArgs : X \notin SeqToSet(GetN(after, k, n).result)

RECURSIVE ClockwiseDistinct(_, _, _, _)
\* The owners met walking the ring from index idx (from 0) for `steps`
\* positions, each owner listed once, in the order met.
ClockwiseDistinct(c, idx, steps, seen) ==
    IF steps = 0 THEN seen
    ELSE LET member == MapGet(c.hashMap, c.ring[idx + 1])
         IN  ClockwiseDistinct(c, (idx + 1) % Len(c.ring), steps - 1,
                 IF member \in SeqToSet(seen) THEN seen ELSE Append(seen, member))

\* C6 as claimed: for n > 0 on a non-empty ring GetN(k, n) returns exactly
\* min(n, number of members) names: the first ones of the clockwise walk
\* from the position Get(k) uses, each owner once.
C6_GetNCount ==
    Len(ring) > 0 =>
        \A k \in Keys, n \in NArgs \ {0} :
            LET res == GetN(Self, k, n)
                all == ClockwiseDistinct(Self, findNode(Self, hashKey(Self, k)).idx,
                                         Len(ring), << >>)
            IN  /\ res.returns
                /\ Len(res.result) = MinOf(n, Cardinality(Members(Self)))
                /\ IsPrefix(res.result, all)

\* C7 as claimed: on a non-empty ring and for n >= 1 the list GetN(k, n)
\* has no node twice, starts with Get(k) and is a prefix of GetN(k, n + 1);
\* for n <= 0 or an empty ring it is empty.
C7_GetNPrefix ==
    \A k \in Keys, n \in NArgs :
        LET res == GetN(Self, k, n)
        IN  IF n <= 0 \/ Len(ring) = 0
            THEN res.returns /\ res.result = << >>
            ELSE /\ res.returns
                 /\ NoDuplicates(res.result)
                 /\ Len(res.result) >= 1
                 /\ res.result[1] = Get(Self, k)
                 /\ GetN(Self, k, n + 1).returns
                 /\ IsPrefix(res.result, GetN(Self, k, n + 1).result)

\* The statements a thread executes while it holds the read lock.
ReadLabels == {"Get.read", "GetN.find", "GetN.loop", "Members.read", "GetStats.read", "RUnlock"}

\* The methods that mutate the ring.
Mutators == {"Add", "AddWithWeight", "Remove"}

\* Thread u is at a statement that reads c.hash next.
ReadsHash(u) ==
    \/ pc[u] \in {"addNode.loop", "Remove.loop"} /\ loc[u].i < loc[u].n
    \/ pc[u] \in {"Get.read", "GetN.find"} /\ Len(ring) # 0

\* Thread u is at a statement that reads c.config.Replicas next.
ReadsReplicas(u) ==
    \/ pc[u] = "addNode.replicas"
    \/ /\ pc[u] = "Remove.range"
       /\ loc[u].names # << >>
       /\ Head(loc[u].names) \in members
       /\ Head(loc[u].names) # EmptyName

(* C5: every call a thread has started returns, and at its return the      *)
(* thread holds the lock in neither mode; the walk of GetN in particular   *)
(* ends, whatever n and whatever the ring.                                 *)
C5_EveryCallReturns ==
    \A t \in Threads :
        (pc[t] # "idle") ~> (pc[t] = "done" /\ writer # t /\ t \notin readers)

(* C8: a thread inside Get, GetN, GetStats or Members holds the read lock, *)
(* no thread holds the write lock, and the ring it reads is the one left   *)
(* by the last completed Add, AddWithWeight or Remove (or by the           *)
(* construction): a state in the middle of a mutation is seen by no        *)
(* reader.                                                                 *)
C8_ReadersSeeCommitted ==
    /\ \A t \in Threads :
           pc[t] \in ReadLabels =>
               /\ t \in readers
               /\ writer = "none"
               /\ Content(Self) = committed
    /\ Content(Self) # committed => (writer # "none" /\ readers = {})

\* A reader waits at c.RLock() while an Add of two names has registered a
\* name and inserted none of its positions yet.
C8_Witness ==
    \E t \in Threads, u \in Threads :
        /\ pc[t] = "RLock"
        /\ loc[t].op \in {"Get", "GetN", "Members", "GetStats"}
        /\ writer = u
        /\ loc[u].op = "Add"
        /\ pc[u] = "addNode.loop"
        /\ loc[u].i = 0 /\ loc[u].n > 0
        /\ loc[u].names # << >>
        /\ Content(Self) # committed

(* C9: no thread writes c.hash in SetHasher, or c.config.Replicas in       *)
(* SetVirtualReplicas, while another thread is at a statement of Get,      *)
(* GetN, Add, AddWithWeight or Remove that reads that field.               *)
C9_NoUnsynchronisedAccess ==
    \A t \in Threads :
      \A u \in Threads \ {t} :
        /\ ~(pc[t] = "SetHasher.write" /\ ReadsHash(u))
        /\ ~(pc[t] = "SetVirtualReplicas.write" /\ ReadsReplicas(u))

\* The errors addNode returns.
AddNodeErrors == {"weight must be positive", "member already exists or empty"}

\* Thread t is in AddWithWeight(X, w) with w <= 0, or X empty or present.
RejectedArgs(t) ==
    /\ loc[t].op = "AddWithWeight"
    /\ \/ loc[t].weight <= 0
       \/ loc[t].member = EmptyName
       \/ loc[t].member \in members

(* C11: AddWithWeight(X, w) with w <= 0, or with X empty or already        *)
(* present, returns an error: the step that tests the arguments goes       *)
(* straight to the deferred Unlock with an error and leaves the ring, the  *)
(* two tables and the node set as they were, and a thread that has         *)
(* returned from AddWithWeight does not hold the lock.                     *)
C11_AddWithWeightRejects ==
    /\ [](\A t \in Threads :
            (loc[t].op = "AddWithWeight" /\ pc[t] = "done") =>
                /\ writer # t
                /\ loc[t].outcome \in AddNodeErrors \cup {"nil"})
    /\ [][\A t \in Threads :
            (pc[t] = "addNode.check" /\ pc'[t] # pc[t] /\ RejectedArgs(t)) =>
                /\ loc'[t].outcome \in AddNodeErrors
                /\ pc'[t] = "Unlock"
                /\ UNCHANGED ringVars]_vars

\* Both threads have returned from AddWithWeight with an error, one for its
\* weight and one for its name, and the ring is the one the first Add left.
C11_Witness ==
    \E t \in Threads, u \in Threads :
        /\ pc[t] = "done" /\ loc[t].op = "AddWithWeight"
        /\ loc[t].outcome = "weight must be positive"
        /\ pc[u] = "done" /\ loc[u].op = "AddWithWeight"
        /\ loc[u].outcome = "member already exists or empty"
        /\ loc[u].member \in members
        /\ writer = "none"
        /\ Len(ring) > 0
        /\ Content(Self) = committed

(* C12: after Add(n1, ..., nk) the node set is the previous one united     *)
(* with the non-empty names of the batch, every name the call added has    *)
(* weight 1 and every other node keeps its weight: an empty, present or    *)
(* repeated name is skipped and the names after it are still added.        *)
C12_BatchAdd ==
    \A names \in Batches :
        LET after == AddAll(Self, names)
        IN  /\ Members(after) = members \cup (SeqToSet(names) \ {EmptyName})
            /\ \A m \in Members(after) \ members : WeightOf(after, m) = DefaultWeight
            /\ \A m \in members : WeightOf(after, m) = WeightOf(Self, m)

\* An Add has returned on a ring with a node of weight 2, and a batch that
\* starts with that node, or with the empty name, or repeats a name, adds
\* the absent node it also names.
C12_Witness ==
    /\ call.op = "Add"
    /\ \E X \in members, Y \in Nodes \ members :
           /\ WeightOf(Self, X) = 2
           /\ Members(AddAll(Self, <<X, Y>>)) = members \cup {Y}
           /\ Members(AddAll(Self, <<EmptyName, Y>>)) = members \cup {Y}
           /\ Members(AddAll(Self, <<Y, Y>>)) = members \cup {Y}
           /\ WeightOf(AddAll(Self, <<X, Y>>), Y) = 1

(* C13: Remove of names that are all absent or empty leaves the ring, the  *)
(* two tables, the node set and every Get as they were; in any batch the   *)
(* absent and empty names are skipped and every present name of the batch  *)
(* leaves the node set.                                                    *)
C13_RemoveSkipsAbsent ==
    \A names \in Batches :
        LET after == RemoveAll(Self, names)
        IN  /\ SeqToSet(names) \cap members = {} =>
                   /\ Content(after) = Content(Self)
                   /\ \A k \in Keys : Get(after, k) = Get(Self, k)
            /\ Members(after) = members \ SeqToSet(names)
            /\ DOMAIN after.weights = DOMAIN weights \ SeqToSet(names)

\* A Remove has returned on a ring that still has nodes; a Remove of the
\* empty name and an absent node changes nothing, and a Remove of an absent
\* node followed by a present one removes the present one.
C13_Witness ==
    /\ call.op = "Remove"
    /\ Len(ring) > 0
    /\ \E X \in members, Y \in Nodes \ members :
           /\ RemoveAll(Self, <<EmptyName, Y>>) = Self
           /\ Members(RemoveAll(Self, <<Y, X>>)) = members \ {X}
           /\ Members(RemoveAll(Self, <<EmptyName, X>>)) = members \ {X}

\* GetStats of a ring with no nodes, as claimed: zero counts, empty
\* distributions and an average weight of 0.
ZeroStats(s) ==
    /\ s.TotalPhysicalNodes = 0
    /\ s.TotalHashNodes = 0
    /\ DOMAIN s.WeightDistribution = {}
    /\ DOMAIN s.LoadDistribution = {}
    /\ s.AverageWeight = ZeroFloat

(* C14 as claimed: on a ring with no nodes Get returns the empty string,   *)
(* GetN and Members return nothing, and GetStats returns zero counts,      *)
(* empty distributions and the average weight 0.                           *)
C14_EmptyRingReads ==
    members = {} =>
        /\ \A k \in Keys :
               /\ Get(Self, k) = EmptyName
               /\ \A n \in NArgs :
                      GetN(Self, k, n).returns /\ GetN(Self, k, n).result = << >>
        /\ Members(Self) = {}
        /\ ZeroStats(GetStats(Self))

\* The per-node loads of a snapshot add up to 100%, each load being off by
\* at most half a unit of its last decimal.
LoadsSumToWhole(s) ==
    LET nodes == DOMAIN s.LoadDistribution
        total == SumOver(s.LoadDistribution, nodes)
    IN  /\ 2 * total >= 2 * 1000000 - Cardinality(nodes)
        /\ 2 * total <= 2 * 1000000 + Cardinality(nodes)

(* C15 as claimed: on a non-empty ring the portions of the ring entries,   *)
(* each the distance from an entry to the next with the last wrapping to   *)
(* the first, add up to the whole position space, and the loads GetStats   *)
(* reports add up to 100% up to rounding.                                  *)
C15_LoadsSumTo100 ==
    Len(ring) > 0 =>
        /\ SumOver([i \in 0..(Len(ring) - 1) |-> Portion(Self, i)],
                   0..(Len(ring) - 1)) = MaxPosition
        /\ LoadsSumToWhole(GetStats(Self))

\* The ring entries (indices from 1) whose position the table gives to member.
EntriesOf(c, member) == {i \in 1..Len(c.ring) : MapGet(c.hashMap, c.ring[i]) = member}

(* C16 as claimed, on a ring whose setters were never called: the ring has *)
(* baseReplicas x weight entries for every present node, so TotalHashNodes *)
(* is the sum of baseReplicas x weight over Members(), and a successful    *)
(* AddWithWeight(X, w) adds baseReplicas x w entries, all of them X's.     *)
C16_ReplicasTimesWeight ==
    ~reconfigured =>
        /\ GetStats(Self).TotalHashNodes = replicas * SumOver(weights, Members(Self))
        /\ \A X \in Members(Self) :
               Cardinality(EntriesOf(Self, X)) = replicas * WeightOf(Self, X)
        /\ \A X \in Nodes \ members, w \in WeightArgs \ {0} :
               LET after == addNode(Self, X, w).c
               IN  /\ Len(after.ring) = Len(ring) + replicas * w
                   /\ Cardinality(EntriesOf(after, X)) = replicas * w

(* C17: in every state the keys of GetStats().WeightDistribution are the   *)
(* names of Members(), the weight table and the node set hold the same     *)
(* names, TotalPhysicalNodes is the number of names of Members(), and      *)
(* every recorded weight is a positive integer.                            *)
C17_WeightsMatchMembers ==
    LET s == GetStats(Self)
    IN  /\ DOMAIN s.WeightDistribution = Members(Self)
        /\ DOMAIN weights = members
        /\ s.TotalPhysicalNodes = Cardinality(Members(Self))
        /\ \A m \in DOMAIN s.WeightDistribution :
               /\ s.WeightDistribution[m] \in Nat \ {0}
               /\ s.WeightDistribution[m] = weights[m]

\* GetStats has just returned on a ring that holds a node of weight 1 and a
\* node of weight 2 and lacks a node.
C17_Witness ==
    /\ call.op = "GetStats"
    /\ Nodes \ members # {}
    /\ \E X \in members, Y \in members :
           /\ GetStats(Self).WeightDistribution[X] = 1
           /\ GetStats(Self).WeightDistribution[Y] = 2

\* The methods that only read the ring.
ReadOps == {"Get", "GetN", "GetStats", "Members"}

(* C18: a call of Get, GetN, GetStats or Members leaves the ring           *)
(* positions, the position table, the weight table, the node set, the      *)
(* hasher and the base-replica count as they were before the call.         *)
C18_ReadsArePure ==
    [][call'.op \in ReadOps =>
          /\ ring' = ring
          /\ hashMap' = hashMap
          /\ weights' = weights
          /\ members' = members
          /\ hash' = hash
          /\ replicas' = replicas]_vars

\* A GetN has returned on a ring of three nodes on which a setter was
\* called, and which holds a position twice.
C18_Witness ==
    /\ call.op = "GetN"
    /\ call.outcome = "returns"
    /\ reconfigured
    /\ Cardinality(members) = 3
    /\ Cardinality(RingPositions(Self)) < Len(ring)

(* C19: SetVirtualReplicas(n) leaves the ring positions, the position      *)
(* table, the weights, the node set and every Get as they were, so the     *)
(* virtual nodes of the present nodes stay as computed; a node added with  *)
(* weight w after the call gets n x w virtual nodes: the ring grows by     *)
(* n x w entries, at the positions of X-0 .. X-(n x w - 1), each given to  *)
(* the node by the position table.                                         *)
C19_SetVirtualReplicasFrame ==
    /\ [](\A n \in ReplicaArgs :
            LET set == SetVirtualReplicas(Self, n)
            IN  /\ Content(set) = Content(Self)
                /\ \A k \in Keys : Get(set, k) = Get(Self, k)
                /\ \A X \in Nodes \ members, w \in WeightArgs \ {0} :
                       LET after == addNode(set, X, w).c
                       IN  /\ Len(after.ring) = Len(ring) + n * w
                           /\ \A i \in 0..(n * w - 1) :
                                  LET p == hashKey(after, formatKey(X, i))
                                  IN  /\ p \in RingPositions(after)
                                      /\ MapGet(after.hashMap, p) = X)
    /\ [][call'.op = "SetVirtualReplicas" =>
             /\ ring' = ring
             /\ hashMap' = hashMap
             /\ weights' = weights
             /\ members' = members
             /\ hash' = hash]_vars

\* The base count was set to 0 on a ring that held a node: that node still
\* has its entries, and a node added afterwards has none.
C19_Witness ==
    /\ call.op \in {"Add", "AddWithWeight"}
    /\ reconfigured
    /\ replicas = 0
    /\ hash = "spread"
    /\ \E X \in members, Y \in members :
           /\ Cardinality(EntriesOf(Self, X)) = WeightOf(Self, X)
           /\ hashKey(Self, formatKey(Y, 0)) \notin RingPositions(Self)

\* The sequence is in ascending order.
IsSorted(s) == \A i \in 1..(Len(s) - 1) : s[i] <= s[i + 1]

(* C20 as claimed: when Add, AddWithWeight or Remove has returned, the     *)
(* ring's position sequence is in ascending order.                         *)
C20_RingSorted ==
    call.op \in {"Add", "AddWithWeight", "Remove"} => IsSorted(ring)

(* C21 as claimed: in every state every value of the position table is a   *)
(* node of the node set, and every position of the ring is a key of the    *)
(* position table.                                                         *)
C21_TableInvariants ==
    /\ \A p \in DOMAIN hashMap : hashMap[p] \in members
    /\ \A i \in 1..Len(ring) : ring[i] \in DOMAIN hashMap

(* C22 as claimed: in every state a node is in the node set if and only if *)
(* it has an entry in the weight table and owns at least one ring          *)
(* position; and when Members() is not empty the ring is not empty and     *)
(* Get(k) is a node name, not the empty string.                            *)
C22_MemberIffOwnsPosition ==
    /\ \A X \in Nodes :
           X \in members <=> (X \in DOMAIN weights /\ EntriesOf(Self, X) # {})
    /\ Members(Self) # {} =>
           /\ Len(ring) > 0
           /\ \A k \in Keys : Get(Self, k) # EmptyName

(* C23 as claimed: for an absent node X, Add(X) or AddWithWeight(X, w)     *)
(* followed by Remove(X) gives back the node set, the weight table, the    *)
(* set of ring positions, the position table and every Get(k) of before    *)
(* the Add.                                                                *)
C23_AddRemoveRoundTrip ==
    \A X \in Nodes \ members, w \in WeightArgs \ {0} :
        LET added == IF w = DefaultWeight THEN AddAll(Self, <<X>>)
                     ELSE addNode(Self, X, w).c
            after == RemoveAll(added, <<X>>)
        IN  /\ Members(after) = Members(Self)
            /\ after.weights = weights
            /\ RingPositions(after) = RingPositions(Self)
            /\ after.hashMap = hashMap
            /\ \A k \in Keys : Get(after, k) = Get(Self, k)

(* C24 as claimed: for two distinct absent nodes, adding the one and then  *)
(* the other gives the same node set, weights, position table and Get(k)   *)
(* for every key as adding them the other way round.                       *)
C24_AddOrderIndependent ==
    \A X \in Nodes \ members, Y \in Nodes \ members :
        X # Y =>
            LET xy == AddAll(AddAll(Self, <<X>>), <<Y>>)
                yx == AddAll(AddAll(Self, <<Y>>), <<X>>)
            IN  /\ Members(xy) = Members(yx)
                /\ xy.weights = yx.weights
                /\ xy.hashMap = yx.hashMap
                /\ \A k \in Keys : Get(xy, k) = Get(yx, k)

(* C25 as claimed: a ring built by New keeps the base-replica count it was *)
(* created with until SetVirtualReplicas is called on that ring, whatever  *)
(* is called on another ring built from the same Config, and its Add and   *)
(* Remove use that count.                                                  *)
C25_RingsIndependent ==
    (other.config # "none" /\ ~other.set) =>
        /\ OtherReplicas = other.created
        /\ \A X \in OtherNames :
               LET asCreated == [Other EXCEPT !.replicas = other.created]
               IN  /\ Content(AddAll(Other, <<X>>)) = Content(AddAll(asCreated, <<X>>))
                   /\ Content(RemoveAll(Other, <<X>>)) =
                          Content(RemoveAll(asCreated, <<X>>))

============================================================================
